---- MODULE Spec2Model ----
(***************************************************************************)
(* Model of the load-balancer core of src/src/core/lb_core_advanced.c:     *)
(* the backend registry (lb_core_add_backend), the two selection           *)
(* strategies (strat_rr_select, strat_leastconn_select) and the dispatch   *)
(* lb_core_select_backend, executed by concurrent threads one shared       *)
(* memory access per step.                                                 *)
(* The life of a core (lb_core_create, lb_core_destroy) and the thread     *)
(* pool (lb_thread_pool_start, lb_thread_pool_stop) are modelled with a    *)
(* log of the resources acquired and released.                             *)
(***************************************************************************)
EXTENDS Integers, Sequences, FiniteSets, TLC

(* ------------------------------ bounds -------------------------------- *)

\* capacity of the registry (the source default is 256, overridable)
MAX_BACKENDS == 3

\* add_backend calls made in one behaviour: enough to fill the registry and
\* to have two calls race for the last slot
MaxCalls == MAX_BACKENDS + 1

\* add_backend calls in the selection specifications
MaxSelAdds == 2

\* select_backend calls per behaviour in the concurrent selection specification
MaxSelects == 1

\* largest active_conns value the collaborator reaches by increments
MaxConns == 2

\* select_backend calls per behaviour in the sequential round-robin specification
MaxTrace == 6

\* add_backend calls between lb_core_create and lb_core_destroy
MaxLifeAdds == 3

\* select_backend calls per behaviour when two threads select at once
MaxConcSelects == 2

\* backends the collaborators mark and count on when adds race with a select
MaxMarked == 1

\* calls made on the thread pool in the worker-pool specification
MaxPoolOps == 4

\* largest thread count passed to lb_thread_pool_start there
MaxThreads == 2

(* ------------------------- unsigned 32-bit values ---------------------- *)

\* A uint32_t v is the pair <<v \div 2^16, v % 2^16>>.
Half == 256 * 256

U32(hi, lo) == <<hi, lo>>

Zero32 == U32(0, 0)

One32 == U32(0, 1)

UINT32_MAX == U32(Half - 1, Half - 1)

\* v + 1 in uint32_t arithmetic (wraps from UINT32_MAX to 0)
Inc32(v) ==
    IF v[2] + 1 < Half THEN U32(v[1], v[2] + 1)
    ELSE IF v[1] + 1 < Half THEN U32(v[1] + 1, 0)
    ELSE Zero32

\* v - 1 in uint32_t arithmetic (wraps from 0 to UINT32_MAX)
Dec32(v) ==
    IF v[2] > 0 THEN U32(v[1], v[2] - 1)
    ELSE IF v[1] > 0 THEN U32(v[1] - 1, Half - 1)
    ELSE UINT32_MAX

\* a < b on uint32_t
Lt32(a, b) == a[1] < b[1] \/ (a[1] = b[1] /\ a[2] < b[2])

\* v % n for a uint32_t v and 0 < n < 2^15
Mod32(v, n) == ((v[1] * (Half % n)) + v[2]) % n

\* a small natural number as a uint32_t
Nat32(k) == U32(0, k)

(* ------------------------------ constants ------------------------------ *)

NULL == 0

\* the lb_core_t* arguments a caller can pass: no core, or the core
NOCORE == "nocore"

CORE == "lb"

\* a const char* argument: the null pointer, or a string
NULLSTR == [null |-> TRUE, s |-> <<>>]

Str(s) == [null |-> FALSE, s |-> s]

BACKEND_DOWN == "BACKEND_DOWN"

BACKEND_UP == "BACKEND_UP"

BACKEND_DRAINING == "BACKEND_DRAINING"

BackendStates == {BACKEND_DOWN, BACKEND_UP, BACKEND_DRAINING}

LB_OK == "LB_OK"

LB_ERR_NOMEM == "LB_ERR_NOMEM"

LB_ERR_INVAL == "LB_ERR_INVAL"

LB_ERR_LIMIT == "LB_ERR_LIMIT"

LB_ALGO_ROUNDROBIN == "LB_ALGO_ROUNDROBIN"

LB_ALGO_LEASTCONN == "LB_ALGO_LEASTCONN"

STRAT_LEASTCONN == "leastconn"

STRAT_RR == "roundrobin"

\* size of backend_t.host
HostSize == 256

\* the threads that call lb_core_add_backend
AddThreads == {"a1", "a2"}

\* the threads that call lb_core_select_backend
SelThreads == {"s1"}

\* no call made yet / call in progress
NONE == "none"

PENDING == "pending"

(* ------------------------------ state ---------------------------------- *)

VARIABLES
    strategy,       \* lb->strategy, bound by lb_core_create
    backend_count,  \* lb->backend_count
    backends,       \* lb->backends[0 .. MAX_BACKENDS-1], NULL or a backend
    rr_idx,         \* lb->rr_idx, the field that follows the array
    heap,           \* the backend_t records allocated so far, by address 1..
    backends_lock,  \* holder of lb->backends_lock, or NONE
    apc,            \* add_backend: position of each thread
    acall,          \* add_backend: arguments of the thread's call in progress
    ab,             \* add_backend: local b
    last,           \* the latest add_backend call to enter or to return
    ncalls,         \* number of add_backend calls made
    nok,            \* number of add_backend calls that returned LB_OK
    appended,       \* backends in the order line 365 appended them
    spc,            \* select_backend: position of each thread
    fr,             \* select_backend: locals of the strategy's frame
    sret,           \* select_backend: value returned by the current/last call
    nsel,           \* number of select_backend calls made
    sawUp,          \* backends the current call read in state BACKEND_UP
    everUp,         \* backends that were BACKEND_UP at some moment of the call
    minHeld,        \* backends that were the strict minimum at every moment
    trace,          \* the cursor at the start, then each noted result and cursor
    lpc,            \* position of the thread that creates and destroys the core
    cin,            \* lb_core_create: the arguments and what the system granted
    cret,           \* lb_core_create: the status returned and the value of *out
    algorithm,      \* lb->algorithm
    epfd,           \* lb->epfd
    mem,            \* lb->mem: NULL or the arena mapping
    tpool,          \* lb->tpool, or the pool of the worker-pool specification
    di,             \* lb_core_destroy: the loop index i
    log             \* resources acquired and released, calls made, in order

regVars == <<strategy, backend_count, backends, rr_idx, heap, backends_lock>>

addVars == <<apc, acall, ab, last, ncalls, appended, nok>>

selVars == <<spc, fr, sret, nsel, sawUp, everUp, minHeld, trace>>

lifeRest == <<lpc, cin, cret, algorithm, epfd, mem, tpool, di>>

lifeVars == <<lifeRest, log>>

vars == <<regVars, addVars, selVars, lifeVars>>

(* ------------------------- lb_strategy_from_algo ----------------------- *)

lb_strategy_from_algo_DefaultRr(a) ==
    CASE a = LB_ALGO_LEASTCONN -> STRAT_LEASTCONN
      [] a = LB_ALGO_ROUNDROBIN -> STRAT_RR
      [] OTHER -> STRAT_RR

\* lines 272-278
lb_strategy_from_algo(a) ==
    CASE a = LB_ALGO_LEASTCONN -> STRAT_LEASTCONN
      [] a = LB_ALGO_ROUNDROBIN -> STRAT_RR
      [] OTHER -> STRAT_LEASTCONN

(* ---------------------- resources and their events --------------------- *)

LB_ERR_SYS == "LB_ERR_SYS"

\* an algorithm tag that is neither of the two the factory names
LB_ALGO_OTHER == "LB_ALGO_OTHER"

Algos == {LB_ALGO_ROUNDROBIN, LB_ALGO_LEASTCONN, LB_ALGO_OTHER}

\* the resources a core owns: the record calloc returned for the core, the
\* epoll descriptor, the registry spin lock, the arena mapping, the array of
\* thread identities, and for each backend its record and its spin lock
R_CORE == "core"

R_EPFD == "epfd"

R_LOCK == "backends_lock"

R_MEM == "mem"

R_THREADS == "tpool.threads"

R_BACKEND == "backend"

R_BLOCK == "backend.lock"

\* an event of the log: a resource acquired or released, or a call made
Acquire(res, id) == [ev |-> "acquire", res |-> res, id |-> id]

Release(res, id) == [ev |-> "release", res |-> res, id |-> id]

Call(name) == [ev |-> "call", res |-> name, id |-> 0]

\* lines 355 and 362: calloc of the backend record, pthread_spin_init of its lock
AcquireBackend(b) == <<Acquire(R_BACKEND, b), Acquire(R_BLOCK, b)>>

\* lines 346-347: pthread_spin_destroy of the backend's lock, free of its record
ReleaseBackend(b) == <<Release(R_BLOCK, b), Release(R_BACKEND, b)>>

(* ------------------------------ thread pool ---------------------------- *)

\* the address calloc returns for the array of thread identities
THREADS == 1

\* lb_thread_pool_t inside a calloc-zeroed core, or zero-initialised
NoPool == [threads |-> NULL, nthreads |-> 0, running |-> FALSE]

\* lines 144-153, as the status returned and the pool left behind. isnull is
\* tp == NULL, ok = FALSE is calloc returning NULL.
lb_thread_pool_start(tp, isnull, nthreads, ok) ==
    IF isnull \/ nthreads = 0
    THEN [status |-> LB_ERR_INVAL, tp |-> tp]
    ELSE IF ~ok
    THEN [status |-> LB_ERR_NOMEM, tp |-> [tp EXCEPT !.threads = NULL]]
    ELSE [status |-> LB_OK,
          tp |-> [threads |-> THREADS, nthreads |-> nthreads, running |-> TRUE]]

lb_thread_pool_stop_KeepCount(tp) == [tp EXCEPT !.running = FALSE, !.threads = NULL]

\* lines 157-159: the pool lb_thread_pool_stop leaves behind
lb_thread_pool_stop(tp) == [threads |-> NULL, nthreads |-> 0, running |-> FALSE]

\* the events of lb_thread_pool_start: the array it allocates
StartEvents(tp, isnull, nthreads, ok) ==
    IF lb_thread_pool_start(tp, isnull, nthreads, ok).status = LB_OK
    THEN <<Acquire(R_THREADS, 0)>>
    ELSE <<>>

\* the events of lb_thread_pool_stop: free(tp->threads), nothing for NULL
StopEvents(tp) == IF tp.threads # NULL THEN <<Release(R_THREADS, 0)>> ELSE <<>>

(* --------------------------- lb_core_add_backend ----------------------- *)

Min(a, b) == IF a < b THEN a ELSE b

\* strncpy(dst, src, n) into a zeroed buffer: at most n characters
strncpy(src, n) == SubSeq(src, 1, Min(Len(src), n))

\* line 353: if (!lb || !host || !port) return LB_ERR_INVAL;
AddInvalid(lb, host, port) == lb = NOCORE \/ host.null \/ port = 0

\* line 354: if (lb->backend_count >= MAX_BACKENDS) return LB_ERR_LIMIT;
AddAtLimit_Off(count) == count > MAX_BACKENDS

AddAtLimit(count) == count >= MAX_BACKENDS

\* line 359: atomic_store(&b->weight, weight ? weight : 1);
NormWeight_Raw(weight) == weight

NormWeight(weight) == IF weight # Zero32 THEN weight ELSE One32

\* lines 355-362: the record calloc returned, after its initialisation
NewBackend(host, port, weight) ==
    [host         |-> strncpy(host.s, HostSize - 1),
     port         |-> port,
     weight       |-> NormWeight(weight),
     state        |-> BACKEND_DOWN,
     active_conns |-> Zero32,
     sockfd       |-> -1]

\* the arguments a caller may pass: every combination of core handle, host
\* and port, and for a valid call every weight
AddHosts == {NULLSTR, Str(<<>>), Str(<<"a">>)}

AddPorts == {0, 80}

AddWeights == {Zero32, One32, UINT32_MAX}

AddArgs ==
    [lb : {NOCORE, CORE}, host : AddHosts, port : AddPorts, weight : {One32}]
    \cup [lb : {CORE}, host : {Str(<<"a">>)}, port : {80}, weight : AddWeights]

\* the arguments of the configuring thread in the selection specifications
SelAddArgs == {[lb |-> CORE, host |-> Str(<<"a">>), port |-> 80, weight |-> One32]}

NoArgs == [lb |-> NOCORE, host |-> NULLSTR, port |-> 0, weight |-> Zero32]

\* lines 353-362. The arguments are checked, backend_count is read without
\* the lock, and the backend is allocated and initialised (thread-local).
\* ok = FALSE is calloc returning NULL.
AddEnter(t, a, ok) ==
    /\ apc[t] = "idle"
    /\ ncalls < MaxCalls
    /\ ncalls' = ncalls + 1
    /\ IF AddInvalid(a.lb, a.host, a.port)
       THEN /\ last' = [t |-> t, args |-> a, status |-> LB_ERR_INVAL]
            /\ UNCHANGED <<apc, acall, ab, heap, log>>
       ELSE IF AddAtLimit(backend_count)
       THEN /\ last' = [t |-> t, args |-> a, status |-> LB_ERR_LIMIT]
            /\ UNCHANGED <<apc, acall, ab, heap, log>>
       ELSE IF ~ok
       THEN /\ last' = [t |-> t, args |-> a, status |-> LB_ERR_NOMEM]
            /\ UNCHANGED <<apc, acall, ab, heap, log>>
       ELSE /\ heap' = Append(heap, NewBackend(a.host, a.port, a.weight))
            /\ ab' = [ab EXCEPT ![t] = Len(heap) + 1]
            /\ acall' = [acall EXCEPT ![t] = a]
            /\ last' = [t |-> t, args |-> a, status |-> PENDING]
            /\ apc' = [apc EXCEPT ![t] = "lock"]
            /\ log' = log \o AcquireBackend(Len(heap) + 1)
    /\ UNCHANGED <<strategy, backend_count, backends, rr_idx, backends_lock>>
    /\ UNCHANGED <<appended, nok>>
    /\ UNCHANGED selVars
    /\ UNCHANGED lifeRest

\* line 364: pthread_spin_lock(&lb->backends_lock);
AddLock(t) ==
    /\ apc[t] = "lock"
    /\ backends_lock = NONE
    /\ backends_lock' = t
    /\ apc' = [apc EXCEPT ![t] = "store"]
    /\ UNCHANGED <<strategy, backend_count, backends, rr_idx, heap>>
    /\ UNCHANGED <<acall, ab, last, ncalls, appended, nok>>
    /\ UNCHANGED selVars
    /\ UNCHANGED lifeVars

\* the values the store of a pointer past the end of lb->backends can leave
\* in lb->rr_idx, the field laid out after the array
OobValues == {Zero32, UINT32_MAX}

\* the store of b into slot k. A slot k >= MAX_BACKENDS is not part of the
\* array: the store lands on the fields after it.
StoreSlot(t, k) ==
    /\ IF k < MAX_BACKENDS
       THEN /\ backends' = [backends EXCEPT ![k] = ab[t]]
            /\ rr_idx' = rr_idx
       ELSE /\ backends' = backends
            /\ rr_idx' \in OobValues
    /\ appended' = Append(appended, ab[t])

\* line 365: lb->backends[lb->backend_count++] = b;  two plain stores, the
\* slot and the incremented count, which the build may emit in either order.
\* This is the first of the two: slotFirst chooses which.
AddStore(t, slotFirst) ==
    /\ apc[t] = "store"
    /\ backends_lock = t
    /\ IF slotFirst
       THEN /\ StoreSlot(t, backend_count)
            /\ backend_count' = backend_count
            /\ apc' = [apc EXCEPT ![t] = "store_count"]
       ELSE /\ backend_count' = backend_count + 1
            /\ UNCHANGED <<backends, rr_idx, appended>>
            /\ apc' = [apc EXCEPT ![t] = "store_slot"]
    /\ UNCHANGED <<strategy, heap, backends_lock>>
    /\ UNCHANGED <<acall, ab, last, ncalls, nok>>
    /\ UNCHANGED selVars
    /\ UNCHANGED lifeVars

\* line 365, the second of the two stores
AddStore2(t) ==
    /\ apc[t] \in {"store_count", "store_slot"}
    /\ backends_lock = t
    /\ IF apc[t] = "store_count"
       THEN /\ backend_count' = backend_count + 1
            /\ UNCHANGED <<backends, rr_idx, appended>>
       ELSE /\ StoreSlot(t, backend_count - 1)
            /\ backend_count' = backend_count
    /\ apc' = [apc EXCEPT ![t] = "unlock"]
    /\ UNCHANGED <<strategy, heap, backends_lock>>
    /\ UNCHANGED <<acall, ab, last, ncalls, nok>>
    /\ UNCHANGED selVars
    /\ UNCHANGED lifeVars

\* lines 366-369: pthread_spin_unlock(&lb->backends_lock); return LB_OK;
AddUnlock(t) ==
    /\ apc[t] = "unlock"
    /\ backends_lock = t
    /\ backends_lock' = NONE
    /\ last' = [t |-> t, args |-> acall[t], status |-> LB_OK]
    /\ nok' = nok + 1
    /\ apc' = [apc EXCEPT ![t] = "idle"]
    /\ ab' = [ab EXCEPT ![t] = NULL]
    /\ acall' = [acall EXCEPT ![t] = NoArgs]
    /\ UNCHANGED <<strategy, backend_count, backends, rr_idx, heap>>
    /\ UNCHANGED <<ncalls, appended>>
    /\ UNCHANGED selVars
    /\ UNCHANGED lifeVars

(* --------------------------- the collaborators ------------------------- *)

\* the backends a reader of the registry can reach: backends[0 .. count)
Registered ==
    {backends[k] : k \in {j \in DOMAIN backends : j < backend_count}} \ {NULL}

\* the select_backend calls in progress
Selecting == {s \in SelThreads : spc[s] \notin {"idle", "done"}}

\* b is BACKEND_UP and its active_conns is strictly less than that of every
\* other BACKEND_UP backend
StrictMin(h, b) ==
    /\ h[b].state = BACKEND_UP
    /\ \A o \in (1..Len(h)) \ {b} :
          h[o].state = BACKEND_UP => Lt32(h[b].active_conns, h[o].active_conns)

UpSet(h) == {b \in 1..Len(h) : h[b].state = BACKEND_UP}

\* what a change of the backends' fields does to the record kept of each call
\* in progress
Observe(h) ==
    /\ everUp' = [s \in SelThreads |->
                    IF s \in Selecting THEN everUp[s] \cup UpSet(h) ELSE everUp[s]]
    /\ minHeld' = [s \in SelThreads |->
                    IF s \in Selecting
                    THEN {b \in minHeld[s] : StrictMin(h, b)}
                    ELSE minHeld[s]]

\* mark(state): atomic_store(&b->state, st) by the health checker
Mark(b, st) ==
    /\ b \in Registered
    /\ heap[b].state # st
    /\ heap' = [heap EXCEPT ![b].state = st]
    /\ Observe(heap')
    /\ UNCHANGED <<strategy, backend_count, backends, rr_idx, backends_lock>>
    /\ UNCHANGED addVars
    /\ UNCHANGED lifeVars
    /\ UNCHANGED <<spc, fr, sret, nsel, sawUp, trace>>

\* inc_conns: atomic increment of b->active_conns on dispatch
IncConns(b) ==
    /\ b \in Registered
    /\ Lt32(heap[b].active_conns, Nat32(MaxConns))
    /\ heap' = [heap EXCEPT ![b].active_conns = Inc32(@)]
    /\ Observe(heap')
    /\ UNCHANGED <<strategy, backend_count, backends, rr_idx, backends_lock>>
    /\ UNCHANGED addVars
    /\ UNCHANGED lifeVars
    /\ UNCHANGED <<spc, fr, sret, nsel, sawUp, trace>>

\* dec_conns: atomic decrement of b->active_conns on connection close
DecConns(b) ==
    /\ b \in Registered
    /\ heap[b].active_conns # Zero32
    /\ heap' = [heap EXCEPT ![b].active_conns = Dec32(@)]
    /\ Observe(heap')
    /\ UNCHANGED <<strategy, backend_count, backends, rr_idx, backends_lock>>
    /\ UNCHANGED addVars
    /\ UNCHANGED lifeVars
    /\ UNCHANGED <<spc, fr, sret, nsel, sawUp, trace>>

(* ------------------------- lb_core_select_backend ----------------------- *)

\* the locals of a strategy's select; start notes the cursor as the call
\* found it
NoFrame ==
    [tries |-> 0, idx |-> 0, i |-> 0, b |-> NULL, sel |-> NULL, minc |-> UINT32_MAX,
     cur |-> Zero32, start |-> Zero32]

\* the values a read of lb->backends[k] can give. A slot k >= MAX_BACKENDS is
\* not part of the array: the read gives whatever the fields after it hold.
ReadSlot(k) ==
    IF k < MAX_BACKENDS THEN {backends[k]} ELSE {NULL} \cup (1..Len(heap))

\* lines 234 and 259: atomic_load(&b->state) == BACKEND_UP
IsUp_NotDown(st) == st # BACKEND_DOWN

IsUp_Always(st) == TRUE

IsUp(st) == st = BACKEND_UP

\* line 236: if (c < minc)
LcBetter(c, minc) == Lt32(c, minc)

\* line 257: the index of a cursor value
RrIndex(cur, n) == Mod32(cur, n)

\* return v; from lb_core_select_backend
SelReturn(s, v) ==
    /\ sret' = [sret EXCEPT ![s] = v]
    /\ spc' = [spc EXCEPT ![s] = "done"]
    /\ fr' = [fr EXCEPT ![s] = NoFrame]

\* line 373 and the dispatch of line 374 into the bound strategy: the frame of
\* strat_leastconn_select (line 229) or of strat_rr_select
SelectEnter(s, lb) ==
    /\ spc[s] \in {"idle", "done"}
    /\ nsel' = nsel + 1
    /\ sawUp' = [sawUp EXCEPT ![s] = {}]
    /\ everUp' = [everUp EXCEPT ![s] = IF lb = NOCORE THEN {} ELSE UpSet(heap)]
    /\ minHeld' = [minHeld EXCEPT ![s] =
                      IF lb = NOCORE THEN {}
                      ELSE {b \in 1..Len(heap) : StrictMin(heap, b)}]
    /\ IF lb = NOCORE \/ backend_count = 0
       THEN SelReturn(s, NULL)
       ELSE /\ spc' = [spc EXCEPT ![s] =
                         IF strategy = STRAT_RR THEN "rr_entry" ELSE "lc_loop"]
            /\ fr' = [fr EXCEPT ![s] = [NoFrame EXCEPT !.start = rr_idx]]
            /\ sret' = sret
    /\ UNCHANGED regVars
    /\ UNCHANGED addVars
    /\ UNCHANGED lifeVars
    /\ UNCHANGED trace

\* line 255: if (lb->backend_count == 0) return NULL;
RrEntry(s) ==
    /\ spc[s] = "rr_entry"
    /\ IF backend_count = 0
       THEN SelReturn(s, NULL)
       ELSE /\ spc' = [spc EXCEPT ![s] = "rr_loop"]
            /\ UNCHANGED <<fr, sret>>
    /\ UNCHANGED regVars
    /\ UNCHANGED addVars
    /\ UNCHANGED lifeVars
    /\ UNCHANGED <<nsel, sawUp, everUp, minHeld, trace>>

RrLoop_OffByOne(s) ==
    /\ spc[s] = "rr_loop"
    /\ IF fr[s].tries <= backend_count
       THEN /\ spc' = [spc EXCEPT ![s] = "rr_fetch"]
            /\ UNCHANGED <<fr, sret>>
       ELSE SelReturn(s, NULL)
    /\ UNCHANGED regVars
    /\ UNCHANGED addVars
    /\ UNCHANGED lifeVars
    /\ UNCHANGED <<nsel, sawUp, everUp, minHeld, trace>>

\* line 256: tries < lb->backend_count, and line 261 when it fails
RrLoop(s) ==
    /\ spc[s] = "rr_loop"
    /\ IF fr[s].tries < backend_count
       THEN /\ spc' = [spc EXCEPT ![s] = "rr_fetch"]
            /\ UNCHANGED <<fr, sret>>
       ELSE SelReturn(s, NULL)
    /\ UNCHANGED regVars
    /\ UNCHANGED addVars
    /\ UNCHANGED lifeVars
    /\ UNCHANGED <<nsel, sawUp, everUp, minHeld, trace>>

RrFetch_LostUpdate(s) ==
    /\ spc[s] = "rr_fetch"
    /\ fr' = [fr EXCEPT ![s].cur = rr_idx]
    /\ \/ rr_idx' = Inc32(rr_idx)
       \/ \E o \in DOMAIN spc \ {s} :
             spc[o] \in {"rr_mod", "rr_slot", "rr_state"} /\ rr_idx' = Inc32(fr[o].cur)
    /\ spc' = [spc EXCEPT ![s] = "rr_mod"]
    /\ UNCHANGED <<strategy, backend_count, backends, heap, backends_lock>>
    /\ UNCHANGED addVars
    /\ UNCHANGED lifeVars
    /\ UNCHANGED <<sret, nsel, sawUp, everUp, minHeld, trace>>

\* line 257: atomic_fetch_add(&lb->rr_idx, 1)
RrFetch(s) ==
    /\ spc[s] = "rr_fetch"
    /\ fr' = [fr EXCEPT ![s].cur = rr_idx]
    /\ rr_idx' = Inc32(rr_idx)
    /\ spc' = [spc EXCEPT ![s] = "rr_mod"]
    /\ UNCHANGED <<strategy, backend_count, backends, heap, backends_lock>>
    /\ UNCHANGED addVars
    /\ UNCHANGED lifeVars
    /\ UNCHANGED <<sret, nsel, sawUp, everUp, minHeld, trace>>

\* line 257: idx = ... % lb->backend_count
RrMod(s) ==
    /\ spc[s] = "rr_mod"
    /\ fr' = [fr EXCEPT ![s].idx = RrIndex(fr[s].cur, backend_count)]
    /\ spc' = [spc EXCEPT ![s] = "rr_slot"]
    /\ UNCHANGED regVars
    /\ UNCHANGED addVars
    /\ UNCHANGED lifeVars
    /\ UNCHANGED <<sret, nsel, sawUp, everUp, minHeld, trace>>

\* line 258: b = lb->backends[idx]; and the test of b in line 259
RrSlot(s) ==
    /\ spc[s] = "rr_slot"
    /\ \E v \in ReadSlot(fr[s].idx) :
          IF v = NULL
          THEN /\ fr' = [fr EXCEPT ![s].tries = @ + 1]
               /\ spc' = [spc EXCEPT ![s] = "rr_loop"]
          ELSE /\ fr' = [fr EXCEPT ![s].b = v]
               /\ spc' = [spc EXCEPT ![s] = "rr_state"]
    /\ UNCHANGED regVars
    /\ UNCHANGED addVars
    /\ UNCHANGED lifeVars
    /\ UNCHANGED <<sret, nsel, sawUp, everUp, minHeld, trace>>

\* line 259: atomic_load(&b->state) == BACKEND_UP ? return b
RrState(s) ==
    /\ spc[s] = "rr_state"
    /\ LET st == heap[fr[s].b].state IN
        /\ sawUp' = [sawUp EXCEPT ![s] =
                        IF st = BACKEND_UP THEN @ \cup {fr[s].b} ELSE @]
        /\ IF IsUp(st)
           THEN SelReturn(s, fr[s].b)
           ELSE /\ fr' = [fr EXCEPT ![s].tries = @ + 1, ![s].b = NULL]
                /\ spc' = [spc EXCEPT ![s] = "rr_loop"]
                /\ sret' = sret
    /\ UNCHANGED regVars
    /\ UNCHANGED addVars
    /\ UNCHANGED lifeVars
    /\ UNCHANGED <<nsel, everUp, minHeld, trace>>

\* line 230: i < lb->backend_count, and line 239 when it fails
LcLoop(s) ==
    /\ spc[s] = "lc_loop"
    /\ IF fr[s].i < backend_count
       THEN /\ spc' = [spc EXCEPT ![s] = "lc_slot"]
            /\ UNCHANGED <<fr, sret>>
       ELSE SelReturn(s, fr[s].sel)
    /\ UNCHANGED regVars
    /\ UNCHANGED addVars
    /\ UNCHANGED lifeVars
    /\ UNCHANGED <<nsel, sawUp, everUp, minHeld, trace>>

\* lines 231-232: b = lb->backends[i]; if (!b) continue;
LcSlot(s) ==
    /\ spc[s] = "lc_slot"
    /\ \E v \in ReadSlot(fr[s].i) :
          IF v = NULL
          THEN /\ fr' = [fr EXCEPT ![s].i = @ + 1]
               /\ spc' = [spc EXCEPT ![s] = "lc_loop"]
          ELSE /\ fr' = [fr EXCEPT ![s].b = v]
               /\ spc' = [spc EXCEPT ![s] = "lc_state"]
    /\ UNCHANGED regVars
    /\ UNCHANGED addVars
    /\ UNCHANGED lifeVars
    /\ UNCHANGED <<sret, nsel, sawUp, everUp, minHeld, trace>>

\* line 234: if (atomic_load(&b->state) == BACKEND_UP)
LcState(s) ==
    /\ spc[s] = "lc_state"
    /\ LET st == heap[fr[s].b].state IN
        /\ sawUp' = [sawUp EXCEPT ![s] =
                        IF st = BACKEND_UP THEN @ \cup {fr[s].b} ELSE @]
        /\ IF IsUp(st)
           THEN /\ spc' = [spc EXCEPT ![s] = "lc_conns"]
                /\ fr' = fr
           ELSE /\ fr' = [fr EXCEPT ![s].i = @ + 1, ![s].b = NULL]
                /\ spc' = [spc EXCEPT ![s] = "lc_loop"]
    /\ UNCHANGED regVars
    /\ UNCHANGED addVars
    /\ UNCHANGED lifeVars
    /\ UNCHANGED <<sret, nsel, everUp, minHeld, trace>>

\* lines 235-236: c = atomic_load(&b->active_conns);
\*                if (c < minc) { minc = c; sel = b; }
LcConns(s) ==
    /\ spc[s] = "lc_conns"
    /\ LET c == heap[fr[s].b].active_conns IN
        fr' = [fr EXCEPT ![s] =
                 IF LcBetter(c, fr[s].minc)
                 THEN [@ EXCEPT !.minc = c, !.sel = fr[s].b, !.i = @ + 1, !.b = NULL]
                 ELSE [@ EXCEPT !.i = @ + 1, !.b = NULL]]
    /\ spc' = [spc EXCEPT ![s] = "lc_loop"]
    /\ UNCHANGED regVars
    /\ UNCHANGED addVars
    /\ UNCHANGED lifeVars
    /\ UNCHANGED <<sret, nsel, sawUp, everUp, minHeld, trace>>

\* one step of strat_rr_select
RrStep(s) ==
    \/ RrEntry(s)
    \/ RrLoop(s)
    \/ RrFetch(s)
    \/ RrMod(s)
    \/ RrSlot(s)
    \/ RrState(s)

\* one step of strat_leastconn_select
LcStep(s) ==
    \/ LcLoop(s)
    \/ LcSlot(s)
    \/ LcState(s)
    \/ LcConns(s)

\* the caller takes the result of a finished call and notes it with the
\* value of the cursor
Record(s) ==
    /\ spc[s] = "done"
    /\ trace' = Append(trace, [ret |-> sret[s], cur |-> rr_idx])
    /\ spc' = [spc EXCEPT ![s] = "idle"]
    /\ UNCHANGED regVars
    /\ UNCHANGED addVars
    /\ UNCHANGED lifeVars
    /\ UNCHANGED <<fr, sret, nsel, sawUp, everUp, minHeld>>

(* ---------------------------- lb_core_create --------------------------- *)

\* what the caller's variable holds before the call: a stale pointer
STALE == "stale"

\* the descriptor epoll_create1 returns when it succeeds
FD == 3

\* values sysconf(_SC_NPROCESSORS_ONLN) returns
Cpus == {-1, 1, 2}

\* statuses strategy.init returns at line 316 through the interface of line
\* 131; strat_leastconn_init, which both strategies of the file share,
\* returns LB_OK
strat_leastconn_init == LB_OK

InitStatuses == {strat_leastconn_init, LB_ERR_NOMEM}

\* the calls of lb_core_create: out is "the out pointer is not NULL", calloc,
\* epoll, mmap and tcalloc are what the system grants to calloc (line 286),
\* epoll_create1 (line 290), mmap (line 307) and the pool's calloc (line 147)
CreateInputs ==
    [out : BOOLEAN, algo : Algos, calloc : BOOLEAN, epoll : BOOLEAN,
     mmap : BOOLEAN, init : InitStatuses, cpu : Cpus, tcalloc : BOOLEAN]

NoInput ==
    [out |-> FALSE, algo |-> LB_ALGO_LEASTCONN, calloc |-> FALSE, epoll |-> FALSE,
     mmap |-> FALSE, init |-> LB_OK, cpu |-> 1, tcalloc |-> FALSE]

\* line 323: nthreads = cpu > 0 ? cpu : 1
CreateThreads(cpu) == IF cpu > 0 THEN cpu ELSE 1

InitFailed_Never(s) == FALSE

\* line 317: if (s != LB_OK)
InitFailed(s) == s # LB_OK

\* lines 314-320 on a failing init: what the error path releases
InitFailureReleases == <<Release(R_EPFD, 0), Release(R_LOCK, 0), Release(R_CORE, 0)>>

\* lines 283-334 in one step: nothing else can reach the core before the
\* call returns
lb_core_create(in) ==
    /\ lpc = "start"
    /\ cin' = in
    /\ IF ~in.out
       THEN \* line 284
            /\ cret' = [cret EXCEPT !.status = LB_ERR_INVAL]
            /\ lpc' = "failed"
            /\ UNCHANGED <<strategy, algorithm, epfd, mem, tpool, log>>
       ELSE IF ~in.calloc
       THEN \* lines 285-287
            /\ cret' = [status |-> LB_ERR_NOMEM, out |-> NOCORE]
            /\ lpc' = "failed"
            /\ UNCHANGED <<strategy, algorithm, epfd, mem, tpool, log>>
       ELSE IF ~in.epoll
       THEN \* lines 290-291
            /\ cret' = [status |-> LB_ERR_SYS, out |-> NOCORE]
            /\ lpc' = "failed"
            /\ log' = log \o <<Acquire(R_CORE, 0), Release(R_CORE, 0)>>
            /\ UNCHANGED <<strategy, algorithm, epfd, mem, tpool>>
       ELSE LET got == <<Acquire(R_CORE, 0), Acquire(R_EPFD, 0), Acquire(R_LOCK, 0)>>
                       \o (IF in.mmap THEN <<Acquire(R_MEM, 0)>> ELSE <<>>)
                       \o <<Call("init")>>
                n == CreateThreads(in.cpu)
                p == lb_thread_pool_start(NoPool, FALSE, n, in.tcalloc)
            IN
            IF InitFailed(in.init)
            THEN \* lines 317-320
                 /\ cret' = [status |-> in.init, out |-> NOCORE]
                 /\ lpc' = "failed"
                 /\ log' = log \o got \o InitFailureReleases
                 /\ UNCHANGED <<strategy, algorithm, epfd, mem, tpool>>
            ELSE \* lines 323-333
                 /\ cret' = [status |-> LB_OK, out |-> CORE]
                 /\ lpc' = "live"
                 /\ algorithm' = in.algo
                 /\ strategy' = lb_strategy_from_algo(in.algo)
                 /\ epfd' = FD
                 /\ mem' = IF in.mmap THEN 1 ELSE NULL
                 /\ tpool' = p.tp
                 /\ log' = log \o got \o StartEvents(NoPool, FALSE, n, in.tcalloc)
    /\ di' = di
    /\ UNCHANGED <<backend_count, backends, rr_idx, heap, backends_lock>>
    /\ UNCHANGED addVars
    /\ UNCHANGED selVars

(* ---------------------------- lb_core_destroy -------------------------- *)

DestroyOrder_TeardownLate ==
    <<"d_stop", "d_mem", "d_teardown", "d_epfd", "d_lock", "d_backends", "d_free">>

DestroyOrder_LockFirst ==
    <<"d_stop", "d_teardown", "d_lock", "d_mem", "d_epfd", "d_backends", "d_free">>

DestroyOrder_CoreEarly ==
    <<"d_stop", "d_teardown", "d_mem", "d_epfd", "d_lock", "d_free", "d_backends">>

\* lines 338-349: the statements of lb_core_destroy in program order
DestroyOrder ==
    <<"d_stop", "d_teardown", "d_mem", "d_epfd", "d_lock", "d_backends", "d_free">>

\* the statement that follows statement pc, "end" after the last
After(pc) ==
    LET k == CHOOSE j \in DOMAIN DestroyOrder : DestroyOrder[j] = pc IN
    IF k = Len(DestroyOrder) THEN "end" ELSE DestroyOrder[k + 1]

\* what a destroy step leaves alone
DestroyFrame ==
    /\ UNCHANGED <<cin, cret, algorithm, epfd, mem>>
    /\ UNCHANGED regVars
    /\ UNCHANGED addVars
    /\ UNCHANGED selVars

\* line 337: if (!lb) return; otherwise the first statement is next. The
\* caller passes NULL after a create that failed, and the core once no
\* add_backend call is in progress.
DestroyEnter(lb) ==
    /\ IF lb = NOCORE
       THEN /\ lpc = "failed"
            /\ lpc' = "end"
       ELSE /\ lpc = "live"
            /\ \A t \in AddThreads : apc[t] = "idle"
            /\ lpc' = DestroyOrder[1]
    /\ UNCHANGED <<tpool, di, log>>
    /\ DestroyFrame

\* line 338: lb_thread_pool_stop(&lb->tpool);
DestroyStop ==
    /\ lpc = "d_stop"
    /\ tpool' = lb_thread_pool_stop(tpool)
    /\ log' = log \o <<Call("lb_thread_pool_stop")>> \o StopEvents(tpool)
    /\ lpc' = After("d_stop")
    /\ di' = di
    /\ DestroyFrame

\* line 339: if (lb->strategy.teardown) lb->strategy.teardown(lb); both
\* strategies have one
DestroyTeardown ==
    /\ lpc = "d_teardown"
    /\ log' = Append(log, Call("teardown"))
    /\ lpc' = After("d_teardown")
    /\ UNCHANGED <<tpool, di>>
    /\ DestroyFrame

\* line 340: if (lb->mem) munmap(lb->mem, lb->mem_size);
DestroyMem ==
    /\ lpc = "d_mem"
    /\ log' = IF mem # NULL THEN Append(log, Release(R_MEM, 0)) ELSE log
    /\ lpc' = After("d_mem")
    /\ UNCHANGED <<tpool, di>>
    /\ DestroyFrame

\* line 341: if (lb->epfd >= 0) close(lb->epfd);
DestroyEpfd ==
    /\ lpc = "d_epfd"
    /\ log' = IF epfd >= 0 THEN Append(log, Release(R_EPFD, 0)) ELSE log
    /\ lpc' = After("d_epfd")
    /\ UNCHANGED <<tpool, di>>
    /\ DestroyFrame

\* line 342: pthread_spin_destroy(&lb->backends_lock);
DestroyLock ==
    /\ lpc = "d_lock"
    /\ log' = Append(log, Release(R_LOCK, 0))
    /\ lpc' = After("d_lock")
    /\ UNCHANGED <<tpool, di>>
    /\ DestroyFrame

\* lines 344-348: one turn of the loop over lb->backends, or its end
DestroyBackend ==
    /\ lpc = "d_backends"
    /\ IF di < backend_count
       THEN /\ \E v \in ReadSlot(di) :
                 log' = IF v # NULL THEN log \o ReleaseBackend(v) ELSE log
            /\ di' = di + 1
            /\ lpc' = lpc
       ELSE /\ lpc' = After("d_backends")
            /\ UNCHANGED <<di, log>>
    /\ tpool' = tpool
    /\ DestroyFrame

\* line 349: free(lb);
DestroyFree ==
    /\ lpc = "d_free"
    /\ log' = Append(log, Release(R_CORE, 0))
    /\ lpc' = After("d_free")
    /\ UNCHANGED <<tpool, di>>
    /\ DestroyFrame

(* ------------------------------ Init ----------------------------------- *)

\* the core as lb_core_create(port, algo, &lb) leaves it: calloc zeroes the
\* registry and the cursor, the strategy is bound from the algorithm tag
InitCore(algo) ==
    /\ strategy = lb_strategy_from_algo(algo)
    /\ backend_count = 0
    /\ backends = [k \in 0..(MAX_BACKENDS - 1) |-> NULL]
    /\ rr_idx = Zero32
    /\ heap = <<>>
    /\ backends_lock = NONE

InitAdd ==
    /\ apc = [t \in AddThreads |-> "idle"]
    /\ acall = [t \in AddThreads |-> NoArgs]
    /\ ab = [t \in AddThreads |-> NULL]
    /\ last = [t |-> NONE, args |-> NoArgs, status |-> NONE]
    /\ ncalls = 0
    /\ nok = 0
    /\ appended = <<>>

InitSel ==
    /\ spc = [s \in SelThreads |-> "idle"]
    /\ fr = [s \in SelThreads |-> NoFrame]
    /\ sret = [s \in SelThreads |-> NULL]
    /\ nsel = 0
    /\ sawUp = [s \in SelThreads |-> {}]
    /\ everUp = [s \in SelThreads |-> {}]
    /\ minHeld = [s \in SelThreads |-> {}]
    /\ trace = <<[ret |-> NULL, cur |-> rr_idx]>>

\* no core yet: lb_core_create has not been called
InitLifeStart ==
    /\ lpc = "start"
    /\ cin = NoInput
    /\ cret = [status |-> NONE, out |-> STALE]
    /\ algorithm = NONE
    /\ epfd = -1
    /\ mem = NULL
    /\ tpool = NoPool
    /\ di = 0
    /\ log = <<>>

\* lb_core_create(port, algo, &lb) has returned LB_OK with everything
\* granted on one processor, and n add_backend calls have returned LB_OK
InitLifeLive(algo, n) ==
    /\ lpc = "live"
    /\ cin = [out |-> TRUE, algo |-> algo, calloc |-> TRUE, epoll |-> TRUE,
              mmap |-> TRUE, init |-> LB_OK, cpu |-> 1, tcalloc |-> TRUE]
    /\ cret = [status |-> LB_OK, out |-> CORE]
    /\ algorithm = algo
    /\ epfd = FD
    /\ mem = 1
    /\ tpool = lb_thread_pool_start(NoPool, FALSE, 1, TRUE).tp
    /\ di = 0
    /\ log = <<Acquire(R_CORE, 0), Acquire(R_EPFD, 0), Acquire(R_LOCK, 0),
               Acquire(R_MEM, 0), Call("init"), Acquire(R_THREADS, 0)>>
             \o [k \in 1..(2 * n) |->
                    IF k % 2 = 1 THEN Acquire(R_BACKEND, (k + 1) \div 2)
                                 ELSE Acquire(R_BLOCK, k \div 2)]

Init ==
    /\ \E algo \in {LB_ALGO_ROUNDROBIN, LB_ALGO_LEASTCONN} :
          InitCore(algo) /\ InitLifeLive(algo, 0)
    /\ InitAdd
    /\ InitSel

(* ----------------- Spec: threads calling add_backend ------------------- *)

Next ==
    \/ \E t \in AddThreads, a \in AddArgs, ok \in BOOLEAN : AddEnter(t, a, ok)
    \/ \E t \in AddThreads : AddLock(t)
    \/ \E t \in AddThreads, slotFirst \in BOOLEAN : AddStore(t, slotFirst)
    \/ \E t \in AddThreads : AddStore2(t)
    \/ \E t \in AddThreads : AddUnlock(t)

Spec == Init /\ [][Next]_vars

(* --------- SpecSel: select_backend against add_backend and the ---------- *)
(* --------- collaborators that change state and active_conns ------------- *)

NextSel ==
    \/ \E a \in SelAddArgs, ok \in BOOLEAN :
          ncalls < MaxSelAdds /\ AddEnter("a1", a, ok)
    \/ AddLock("a1")
    \/ \E slotFirst \in BOOLEAN : AddStore("a1", slotFirst)
    \/ AddStore2("a1")
    \/ AddUnlock("a1")
    \/ \E b \in 1..Len(heap), st \in BackendStates : Mark(b, st)
    \/ \E b \in 1..Len(heap) : IncConns(b)
    \/ \E b \in 1..Len(heap) : DecConns(b)
    \/ \E s \in SelThreads, lb \in {NOCORE, CORE} :
          nsel < MaxSelects /\ SelectEnter(s, lb)
    \/ \E s \in SelThreads : RrStep(s)
    \/ \E s \in SelThreads : LcStep(s)

SpecSel == Init /\ [][NextSel]_vars

(* ----- SpecMark: select_backend against add_backend and the marking ------ *)
(* ----- of backends, with no connection opened ---------------------------- *)

NextMark ==
    \/ \E a \in SelAddArgs, ok \in BOOLEAN :
          ncalls < MaxSelAdds /\ AddEnter("a1", a, ok)
    \/ AddLock("a1")
    \/ \E slotFirst \in BOOLEAN : AddStore("a1", slotFirst)
    \/ AddStore2("a1")
    \/ AddUnlock("a1")
    \/ \E b \in 1..Len(heap), st \in BackendStates : Mark(b, st)
    \/ \E s \in SelThreads, lb \in {NOCORE, CORE} :
          nsel < MaxSelects /\ SelectEnter(s, lb)
    \/ \E s \in SelThreads : RrStep(s)
    \/ \E s \in SelThreads : LcStep(s)

SpecMark == Init /\ [][NextMark]_vars

(* ----- SpecRR: one caller of round-robin on a constant registry ---------- *)

\* cursor values the core has reached when the calls start
StartCursors == {Zero32, One32, U32(Half - 1, Half - 3), UINT32_MAX}

\* the registry after n successful add_backend calls and any marking of the
\* backends, the cursor after any number of earlier selections
InitRR ==
    /\ strategy = lb_strategy_from_algo(LB_ALGO_ROUNDROBIN)
    /\ \E n \in 1..MAX_BACKENDS :
        /\ InitLifeLive(LB_ALGO_ROUNDROBIN, n)
        /\ backend_count = n
        /\ backends = [k \in 0..(MAX_BACKENDS - 1) |-> IF k < n THEN k + 1 ELSE NULL]
        /\ \E st \in [1..n -> BackendStates] :
              heap = [b \in 1..n |->
                        [NewBackend(Str(<<"a">>), 80, One32) EXCEPT !.state = st[b]]]
        /\ appended = [b \in 1..n |-> b]
        /\ ncalls = n
        /\ nok = n
    /\ rr_idx \in StartCursors
    /\ backends_lock = NONE
    /\ apc = [t \in AddThreads |-> "idle"]
    /\ acall = [t \in AddThreads |-> NoArgs]
    /\ ab = [t \in AddThreads |-> NULL]
    /\ last = [t |-> "a1", args |-> NoArgs, status |-> LB_OK]
    /\ InitSel

NextRR ==
    \/ spc["s1"] = "idle" /\ nsel < MaxTrace /\ SelectEnter("s1", CORE)
    \/ RrEntry("s1")
    \/ RrLoop("s1")
    \/ RrFetch("s1")
    \/ RrMod("s1")
    \/ RrSlot("s1")
    \/ RrState("s1")
    \/ Record("s1")

SpecRR == InitRR /\ [][NextRR]_vars

(* ----- SpecLC: one caller of least-connections on a constant registry ----- *)

\* values of active_conns the collaborators have left in the backends
LcCounters == {Zero32, One32, UINT32_MAX}

\* the registry after n successful add_backend calls, any marking of the
\* backends and any number of connections opened and closed
InitLC ==
    /\ strategy = lb_strategy_from_algo(LB_ALGO_LEASTCONN)
    /\ \E n \in 1..MAX_BACKENDS :
        /\ InitLifeLive(LB_ALGO_LEASTCONN, n)
        /\ backend_count = n
        /\ backends = [k \in 0..(MAX_BACKENDS - 1) |-> IF k < n THEN k + 1 ELSE NULL]
        /\ \E st \in [1..n -> BackendStates], c \in [1..n -> LcCounters] :
              heap = [b \in 1..n |->
                        [NewBackend(Str(<<"a">>), 80, One32)
                            EXCEPT !.state = st[b], !.active_conns = c[b]]]
        /\ appended = [b \in 1..n |-> b]
        /\ ncalls = n
        /\ nok = n
    /\ rr_idx = Zero32
    /\ backends_lock = NONE
    /\ apc = [t \in AddThreads |-> "idle"]
    /\ acall = [t \in AddThreads |-> NoArgs]
    /\ ab = [t \in AddThreads |-> NULL]
    /\ last = [t |-> "a1", args |-> NoArgs, status |-> LB_OK]
    /\ InitSel

NextLC ==
    \/ spc["s1"] = "idle" /\ nsel < MaxSelects /\ SelectEnter("s1", CORE)
    \/ LcLoop("s1")
    \/ LcSlot("s1")
    \/ LcState("s1")
    \/ LcConns("s1")

SpecLC == InitLC /\ [][NextLC]_vars

(* ----- SpecLife: one thread creates a core, adds backends, destroys it ---- *)

InitLife ==
    /\ strategy = NONE
    /\ backend_count = 0
    /\ backends = [k \in 0..(MAX_BACKENDS - 1) |-> NULL]
    /\ rr_idx = Zero32
    /\ heap = <<>>
    /\ backends_lock = NONE
    /\ InitAdd
    /\ InitSel
    /\ InitLifeStart

NextLife ==
    \/ \E in \in CreateInputs : lb_core_create(in)
    \/ \E a \in SelAddArgs, ok \in BOOLEAN :
          lpc = "live" /\ ncalls < MaxLifeAdds /\ AddEnter("a1", a, ok)
    \/ AddLock("a1")
    \/ \E slotFirst \in BOOLEAN : AddStore("a1", slotFirst)
    \/ AddStore2("a1")
    \/ AddUnlock("a1")
    \/ \E lb \in {NOCORE, CORE} : DestroyEnter(lb)
    \/ DestroyStop
    \/ DestroyTeardown
    \/ DestroyMem
    \/ DestroyEpfd
    \/ DestroyLock
    \/ DestroyBackend
    \/ DestroyFree

SpecLife == InitLife /\ [][NextLife]_vars

(* ----- SpecPool: calls of lb_thread_pool_start and lb_thread_pool_stop ---- *)
(* ----- on one zero-initialised pool, in any order ------------------------ *)

\* a call noted in the log with its argument and, for start, its status
Started(isnull, n, ok, status) ==
    [ev |-> IF isnull THEN "start(NULL)" ELSE IF ok THEN "start" ELSE "start, no memory",
     res |-> status, id |-> n]

Stopped(isnull) == [ev |-> IF isnull THEN "stop(NULL)" ELSE "stop", res |-> NONE, id |-> 0]

InitPool ==
    /\ \E algo \in {LB_ALGO_LEASTCONN} : InitCore(algo)
    /\ InitAdd
    /\ InitSel
    /\ lpc = "pool"
    /\ cin = NoInput
    /\ cret = [status |-> NONE, out |-> STALE]
    /\ algorithm = NONE
    /\ epfd = -1
    /\ mem = NULL
    /\ tpool = NoPool
    /\ di = 0
    /\ log = <<>>

PoolFrame ==
    /\ UNCHANGED <<lpc, cin, cret, algorithm, epfd, mem, di>>
    /\ UNCHANGED regVars
    /\ UNCHANGED addVars
    /\ UNCHANGED selVars

\* lines 144-153
PoolStart(isnull, n, ok) ==
    /\ Len(log) < MaxPoolOps
    /\ LET r == lb_thread_pool_start(tpool, isnull, n, ok) IN
        /\ tpool' = r.tp
        /\ log' = Append(log, Started(isnull, n, ok, r.status))
    /\ PoolFrame

\* lines 155-160
PoolStop(isnull) ==
    /\ Len(log) < MaxPoolOps
    /\ tpool' = IF isnull THEN tpool ELSE lb_thread_pool_stop(tpool)
    /\ log' = Append(log, Stopped(isnull))
    /\ PoolFrame

NextPool ==
    \/ \E isnull \in BOOLEAN, n \in 0..MaxThreads, ok \in BOOLEAN : PoolStart(isnull, n, ok)
    \/ \E isnull \in BOOLEAN : PoolStop(isnull)

SpecPool == InitPool /\ [][NextPool]_vars

(* ----- SpecRR2: two callers of round-robin on a constant registry -------- *)

\* the threads that select at once
Callers == {"s1", "s2"}

\* cursor values the core has reached when the calls start: an early one and
\* the last before the wrap
ConcCursors == {One32, UINT32_MAX}

\* the states the backends were marked with: a select treats every state
\* other than BACKEND_UP alike
ConcStates == {BACKEND_DOWN, BACKEND_UP}

InitRR2 ==
    /\ strategy = lb_strategy_from_algo(LB_ALGO_ROUNDROBIN)
    /\ \E n \in 1..MAX_BACKENDS :
        /\ InitLifeLive(LB_ALGO_ROUNDROBIN, n)
        /\ backend_count = n
        /\ backends = [k \in 0..(MAX_BACKENDS - 1) |-> IF k < n THEN k + 1 ELSE NULL]
        /\ \E st \in [1..n -> ConcStates] :
              heap = [b \in 1..n |->
                        [NewBackend(Str(<<"a">>), 80, One32) EXCEPT !.state = st[b]]]
        /\ appended = [b \in 1..n |-> b]
        /\ ncalls = n
        /\ nok = n
    /\ rr_idx \in ConcCursors
    /\ backends_lock = NONE
    /\ apc = [t \in AddThreads |-> "idle"]
    /\ acall = [t \in AddThreads |-> NoArgs]
    /\ ab = [t \in AddThreads |-> NULL]
    /\ last = [t |-> "a1", args |-> NoArgs, status |-> LB_OK]
    /\ spc = [s \in Callers |-> "idle"]
    /\ fr = [s \in Callers |-> NoFrame]
    /\ sret = [s \in Callers |-> NULL]
    /\ nsel = 0
    /\ sawUp = [s \in Callers |-> {}]
    /\ everUp = [s \in Callers |-> {}]
    /\ minHeld = [s \in Callers |-> {}]
    /\ trace = <<[ret |-> NULL, cur |-> rr_idx]>>

NextRR2 ==
    \/ \E s \in Callers : nsel < MaxConcSelects /\ SelectEnter(s, CORE)
    \/ \E s \in Callers : RrEntry(s)
    \/ \E s \in Callers : RrLoop(s)
    \/ \E s \in Callers : RrFetch(s)
    \/ \E s \in Callers : RrMod(s)
    \/ \E s \in Callers : RrSlot(s)
    \/ \E s \in Callers : RrState(s)

SpecRR2 == InitRR2 /\ [][NextRR2]_vars

(* ----- SpecRace: two threads add to a registry with one free slot while --- *)
(* ----- a third selects and the collaborators update a backend ------------ *)

\* the registry after MAX_BACKENDS - 1 successful add_backend calls, its
\* backends marked BACKEND_UP
InitRace ==
    /\ \E algo \in {LB_ALGO_ROUNDROBIN, LB_ALGO_LEASTCONN} :
          /\ strategy = lb_strategy_from_algo(algo)
          /\ InitLifeLive(algo, MAX_BACKENDS - 1)
    /\ backend_count = MAX_BACKENDS - 1
    /\ backends = [k \in 0..(MAX_BACKENDS - 1) |->
                     IF k < MAX_BACKENDS - 1 THEN k + 1 ELSE NULL]
    /\ heap = [b \in 1..(MAX_BACKENDS - 1) |->
                 [NewBackend(Str(<<"a">>), 80, One32) EXCEPT !.state = BACKEND_UP]]
    /\ appended = [b \in 1..(MAX_BACKENDS - 1) |-> b]
    /\ ncalls = MAX_BACKENDS - 1
    /\ nok = MAX_BACKENDS - 1
    /\ rr_idx = Zero32
    /\ backends_lock = NONE
    /\ apc = [t \in AddThreads |-> "idle"]
    /\ acall = [t \in AddThreads |-> NoArgs]
    /\ ab = [t \in AddThreads |-> NULL]
    /\ last = [t |-> "a1", args |-> NoArgs, status |-> LB_OK]
    /\ InitSel

NextRace ==
    \/ \E t \in AddThreads, a \in SelAddArgs, ok \in BOOLEAN : AddEnter(t, a, ok)
    \/ \E t \in AddThreads : AddLock(t)
    \/ \E t \in AddThreads, slotFirst \in BOOLEAN : AddStore(t, slotFirst)
    \/ \E t \in AddThreads : AddStore2(t)
    \/ \E t \in AddThreads : AddUnlock(t)
    \/ \E b \in 1..MaxMarked, st \in BackendStates : Mark(b, st)
    \/ \E b \in 1..MaxMarked : IncConns(b)
    \/ \E b \in 1..MaxMarked : DecConns(b)
    \/ \E s \in SelThreads : nsel < MaxSelects /\ SelectEnter(s, CORE)
    \/ \E s \in SelThreads : RrStep(s)
    \/ \E s \in SelThreads : LcStep(s)

SpecRace == InitRace /\ [][NextRace]_vars

(* ----- SpecFrame: one caller of select_backend, on any registry, while ---- *)
(* ----- one thread adds backends ------------------------------------------ *)

\* the registry after n successful add_backend calls, possibly none, and any
\* marking of the backends, under either strategy
InitFrame ==
    /\ \E algo \in {LB_ALGO_ROUNDROBIN, LB_ALGO_LEASTCONN}, n \in 0..(MAX_BACKENDS - 1) :
        /\ strategy = lb_strategy_from_algo(algo)
        /\ InitLifeLive(algo, n)
        /\ backend_count = n
        /\ backends = [k \in 0..(MAX_BACKENDS - 1) |-> IF k < n THEN k + 1 ELSE NULL]
        /\ \E st \in [1..n -> ConcStates] :
              heap = [b \in 1..n |->
                        [NewBackend(Str(<<"a">>), 80, One32) EXCEPT !.state = st[b]]]
        /\ appended = [b \in 1..n |-> b]
        /\ ncalls = n
        /\ nok = n
    /\ rr_idx \in ConcCursors
    /\ backends_lock = NONE
    /\ apc = [t \in AddThreads |-> "idle"]
    /\ acall = [t \in AddThreads |-> NoArgs]
    /\ ab = [t \in AddThreads |-> NULL]
    /\ last = [t |-> "a1", args |-> NoArgs, status |-> LB_OK]
    /\ InitSel

NextFrame ==
    \/ \E a \in SelAddArgs, ok \in BOOLEAN : AddEnter("a1", a, ok)
    \/ AddLock("a1")
    \/ \E slotFirst \in BOOLEAN : AddStore("a1", slotFirst)
    \/ AddStore2("a1")
    \/ AddUnlock("a1")
    \/ \E s \in SelThreads, lb \in {NOCORE, CORE} :
          nsel < MaxSelects /\ SelectEnter(s, lb)
    \/ \E s \in SelThreads : RrStep(s)
    \/ \E s \in SelThreads : LcStep(s)

SpecFrame == InitFrame /\ [][NextFrame]_vars

(* ============================ properties ================================ *)

AddIdle == \A t \in AddThreads : apc[t] = "idle"

\* C1: once every add_backend call has returned, backend_count is the number
\* of calls that returned LB_OK and slots backends[0 .. count) hold the
\* backends of those calls, one per slot, in the order they were appended.
C1_RegistryIsTheSuccessfulAdds ==
    AddIdle =>
        /\ backend_count = nok
        /\ Len(appended) = nok
        /\ \A k \in 1..nok :
              (k - 1) \in DOMAIN backends /\ backends[k - 1] = appended[k]

\* C2: a call with valid arguments that finds backend_count = MAX_BACKENDS
\* returns LB_ERR_LIMIT and leaves backend_count and every slot unchanged.
C2_FullRegistryRejects ==
    [][(/\ ncalls' = ncalls + 1
        /\ backend_count = MAX_BACKENDS
        /\ ~AddInvalid(last'.args.lb, last'.args.host, last'.args.port))
       => (/\ last'.status = LB_ERR_LIMIT
           /\ backend_count' = backend_count
           /\ backends' = backends
           /\ heap' = heap
           /\ apc' = apc)]_vars

C2_Witness ==
    /\ last.status = LB_ERR_LIMIT
    /\ backend_count = MAX_BACKENDS
    /\ \A k \in DOMAIN backends : backends[k] # NULL

\* C3: backend_count never exceeds MAX_BACKENDS, no slot at an index
\* >= MAX_BACKENDS is written, and at most MAX_BACKENDS calls return LB_OK.
C3_CapacityNeverExceeded ==
    /\ backend_count <= MAX_BACKENDS
    /\ Len(appended) <= MAX_BACKENDS
    /\ nok <= MAX_BACKENDS

\* the arguments the specification rejects: no core, no host, the empty
\* host, port 0
C4_Rejected(a) == a.lb = NOCORE \/ a.host.null \/ a.host.s = <<>> \/ a.port = 0

\* C4: a call with a null core, a null or empty host or port 0 returns
\* LB_ERR_INVAL and stores nothing in the registry.
C4_InvalidArgumentsRejected ==
    /\ (last.status \notin {NONE, PENDING} /\ C4_Rejected(last.args))
          => last.status = LB_ERR_INVAL
    /\ \A b \in Registered : heap[b].host # <<>> /\ heap[b].port # 0

\* C5: every backend in the registry has weight >= 1; a call with weight 0
\* stores weight 1 and any other weight is stored as given.
C5_WeightAtLeastOne ==
    /\ \A k \in DOMAIN backends :
          backends[k] # NULL => ~Lt32(heap[backends[k]].weight, One32)
    /\ \A t \in AddThreads :
          ab[t] # NULL =>
             heap[ab[t]].weight =
                (IF acall[t].weight = Zero32 THEN One32 ELSE acall[t].weight)

C5_Witness ==
    \E t \in AddThreads :
        /\ apc[t] = "unlock"
        /\ acall[t].weight = Zero32
        /\ \E k \in DOMAIN backends :
              backends[k] = ab[t] /\ heap[ab[t]].weight = One32

\* C6: a backend returned by select_backend was read in state BACKEND_UP by
\* the call that returns it, and was BACKEND_UP at some moment of that call.
C6_ReturnedWasReadUp ==
    \A s \in SelThreads :
        (spc[s] = "done" /\ sret[s] # NULL) =>
            (sret[s] \in sawUp[s] /\ sret[s] \in everUp[s])

C6_Witness ==
    \E s \in SelThreads :
        /\ spc[s] = "done"
        /\ sret[s] # NULL
        /\ heap[sret[s]].state = BACKEND_DRAINING
        /\ \E o \in Registered : o # sret[s] /\ heap[o].state = BACKEND_DOWN

\* the slot that holds backend b
SlotOf(b) == CHOOSE k \in DOMAIN backends : backends[k] = b

\* the indices of the BACKEND_UP backends
UpSlots == {k \in 0..(backend_count - 1) : heap[backends[k]].state = BACKEND_UP}

AllUp == UpSlots = 0..(backend_count - 1)

\* the results noted so far, as slot indices
Returned == [k \in 1..(Len(trace) - 1) |-> trace[k + 1].ret]

\* number of times backend b was returned
Times(b) == Cardinality({k \in DOMAIN Returned : Returned[k] = b})

\* C7: with all N backends BACKEND_UP, successive selections return indices
\* in increasing order modulo N from any cursor value, k*N selections return
\* each backend k times, and a fresh core with 3 backends gives 0,1,2,0,1.
C7_RoundRobinFair ==
    AllUp =>
        /\ \A k \in DOMAIN Returned : Returned[k] # NULL
        /\ \A k \in DOMAIN Returned :
              k + 1 \in DOMAIN Returned =>
                 SlotOf(Returned[k + 1]) = (SlotOf(Returned[k]) + 1) % backend_count
        /\ \A j \in 1..MaxTrace :
              Len(Returned) = j * backend_count =>
                 \A b \in 1..backend_count : Times(b) = j
        /\ (trace[1].cur = Zero32 /\ backend_count = 3 /\ Len(Returned) >= 5) =>
              SubSeq(Returned, 1, 5) = <<1, 2, 3, 1, 2>>

RECURSIVE Add32(_, _)
\* v + n in uint32_t arithmetic
Add32(v, n) == IF n = 0 THEN v ELSE Add32(Inc32(v), n - 1)

\* distance from index start to the first BACKEND_UP index at or after it, in
\* cyclic order
FirstUp(start) ==
    CHOOSE d \in 0..(backend_count - 1) :
        /\ (start + d) % backend_count \in UpSlots
        /\ \A e \in 0..(d - 1) : (start + e) % backend_count \notin UpSlots

\* C8: each selection returns the first BACKEND_UP backend at or after index
\* (cursor mod N) in cyclic order and leaves the cursor just past it; it
\* returns NULL when no backend is BACKEND_UP.
C8_RoundRobinSkipsDown ==
    \A k \in DOMAIN Returned :
        LET start == Mod32(trace[k].cur, backend_count) IN
        IF UpSlots = {}
        THEN Returned[k] = NULL
        ELSE /\ Returned[k] = backends[(start + FirstUp(start)) % backend_count]
             /\ trace[k + 1].cur = Add32(trace[k].cur, FirstUp(start) + 1)

\* C9: select_backend returns NULL when the registry is empty, and when no
\* registered backend is BACKEND_UP at any moment of the call.
C9_NoCandidate ==
    \A s \in SelThreads :
        spc[s] = "done" =>
            /\ backend_count = 0 => sret[s] = NULL
            /\ everUp[s] = {} => sret[s] = NULL

C9_Witness ==
    \E s \in SelThreads :
        /\ spc[s] = "done"
        /\ sret[s] = NULL
        /\ everUp[s] = {}
        /\ Cardinality(Registered) = 2
        /\ \E b \in Registered : heap[b].state = BACKEND_DRAINING

\* C10: a least-connections call returns the backend that was BACKEND_UP with
\* active_conns strictly below every other BACKEND_UP backend's at every
\* moment of the call.
C10_StrictMinimumReturned ==
    \A s \in SelThreads :
        (strategy = STRAT_LEASTCONN /\ spc[s] = "done") =>
            \A b \in minHeld[s] : sret[s] = b

\* the BACKEND_UP backends whose active_conns no BACKEND_UP backend is below
LcMinimal ==
    {b \in UpSet(heap) :
        \A o \in UpSet(heap) : ~Lt32(heap[o].active_conns, heap[b].active_conns)}

\* C11: on a registry nobody changes, least-connections returns the
\* BACKEND_UP backend of minimum active_conns with the lowest index, for all
\* states and all counter values of uint32_t, and NULL only when no backend
\* is BACKEND_UP.
C11_LeastConnMinimum ==
    (strategy = STRAT_LEASTCONN /\ spc["s1"] = "done") =>
        IF UpSet(heap) = {}
        THEN sret["s1"] = NULL
        ELSE /\ sret["s1"] \in LcMinimal
             /\ \A b \in LcMinimal : SlotOf(sret["s1"]) <= SlotOf(b)

\* everything lb_core_create asks of the system was granted to the call
CreateGranted == cin.out /\ cin.calloc /\ cin.epoll /\ cin.init = LB_OK

\* C12: the strategy of a core follows from the algorithm tag alone:
\* LB_ALGO_ROUNDROBIN binds round-robin, LB_ALGO_LEASTCONN and every other
\* tag bind least-connections; a create with an unknown tag returns LB_OK
\* whenever one with LB_ALGO_LEASTCONN does and leaves a least-connections
\* core.
C12_StrategyFromTag ==
    lpc # "start" =>
        /\ cret.status = LB_OK =>
              /\ cin.algo = LB_ALGO_ROUNDROBIN => strategy = STRAT_RR
              /\ cin.algo # LB_ALGO_ROUNDROBIN => strategy = STRAT_LEASTCONN
        /\ cin.algo = LB_ALGO_OTHER =>
              /\ CreateGranted => cret.status = LB_OK /\ cret.out = CORE
              /\ cret.status # LB_ERR_INVAL \/ ~cin.out

C12_Witness ==
    /\ lpc = "live"
    /\ cin.algo = LB_ALGO_OTHER
    /\ cret.status = LB_OK
    /\ strategy = STRAT_LEASTCONN
    /\ backend_count = 1

\* C13: lb_core_create returns LB_OK and stores a core in *out exactly when
\* out is not NULL and calloc, epoll_create1 and strategy init succeed; mmap
\* or lb_thread_pool_start failing does not change that; a failing strategy
\* init gives its status as the result; every other result leaves *out NULL.
C13_CreateResult ==
    lpc # "start" =>
        /\ cret.status = LB_OK <=> CreateGranted
        /\ cret.status = LB_OK <=> cret.out = CORE
        /\ (cin.out /\ cin.calloc /\ cin.epoll /\ cin.init # LB_OK) =>
              cret.status = cin.init
        /\ (cin.out /\ cret.status # LB_OK) => cret.out = NOCORE

C13_Witness ==
    /\ lpc = "live"
    /\ cret.status = LB_OK
    /\ ~cin.mmap /\ mem = NULL
    /\ ~cin.tcalloc /\ tpool = NoPool
    /\ cin.cpu = -1

\* a create whose strategy init failed returned that status with *out NULL
C13_WitnessInit ==
    /\ lpc = "failed"
    /\ cret = [status |-> LB_ERR_NOMEM, out |-> NOCORE]
    /\ cin.init = LB_ERR_NOMEM
    /\ cin.calloc /\ cin.epoll /\ cin.mmap

\* number of events e in the log
Count(e) == Cardinality({k \in DOMAIN log : log[k] = e})

\* the resources acquired so far, as <<resource, id>>
Acquired == {<<log[k].res, log[k].id>> : k \in {j \in DOMAIN log : log[j].ev = "acquire"}}

\* the resources held: acquired and not released
Held == {r \in Acquired : Count(Release(r[1], r[2])) = 0}

C15_StopResetsPool ==
    lpc = "pool" =>
        \A k \in DOMAIN log :
            /\ (k = Len(log) /\ log[k].ev = "stop") => tpool = NoPool
            /\ (/\ k + 2 = Len(log)
                /\ log[k].ev = "start" /\ log[k].id > 0
                /\ log[k + 1].ev = "stop"
                /\ log[k + 2].ev = "start" /\ log[k + 2].id > 0)
                  => /\ log[k + 2].res = LB_OK
                     /\ tpool = [threads |-> THREADS, nthreads |-> log[k + 2].id,
                                 running |-> TRUE]
            /\ (/\ k + 1 = Len(log)
                /\ log[k].ev = "stop"
                /\ log[k + 1].ev = "start, no memory" /\ log[k + 1].id > 0)
                  => log[k + 1].res = LB_ERR_NOMEM /\ tpool = NoPool

C15_Witness ==
    /\ lpc = "pool"
    /\ Len(log) = 4
    /\ log[1] = Started(FALSE, 2, TRUE, LB_OK)
    /\ log[2] = Stopped(FALSE)
    /\ log[3] = Stopped(FALSE)
    /\ log[4] = Started(FALSE, 1, TRUE, LB_OK)
    /\ tpool = [threads |-> THREADS, nthreads |-> 1, running |-> TRUE]

\* the slot index thread s is about to read
SlotRead(s) == IF spc[s] = "rr_slot" THEN fr[s].idx ELSE fr[s].i

\* C16: a select_backend call that runs beside add_backend never sees a slot
\* half published: every index it reads is below backend_count as it is at
\* that read, and the slot it reads holds an initialised backend, never NULL.
C16_NoHalfPublishedSlot ==
    [][\A s \in SelThreads :
          (spc[s] \in {"rr_slot", "lc_slot"} /\ spc'[s] # spc[s]) =>
              /\ SlotRead(s) < backend_count
              /\ backends[SlotRead(s)] \in 1..Len(heap)]_vars

\* thread s takes its cursor value in this step
Fetches(s) == spc[s] = "rr_fetch" /\ spc'[s] = "rr_mod"

\* the calls that have entered and have not taken a cursor value yet
BeforeFetch == {s \in DOMAIN spc : spc[s] \in {"rr_entry", "rr_loop", "rr_fetch"}}

\* the cursor values held by calls between their fetch and their return
InHand == {s \in DOMAIN spc : spc[s] \in {"rr_mod", "rr_slot", "rr_state"}}

\* C17: with round-robin calls running at once, each fetch-and-increment of
\* the cursor obtains the value the cursor has and leaves it one higher, the
\* cursor changes in no other way, so the values obtained are distinct and
\* consecutive; on a constant registry whose backends are all BACKEND_UP each
\* call takes exactly one cursor value.
C17_CursorValuesConsecutive ==
    [][/\ \A s \in DOMAIN spc :
             Fetches(s) => fr'[s].cur = rr_idx /\ rr_idx' = Inc32(rr_idx)
       /\ rr_idx' # rr_idx => \E s \in DOMAIN spc : Fetches(s)
       /\ \A s \in InHand, o \in InHand : s # o => fr[s].cur # fr[o].cur
       /\ AllUp =>
             /\ \A s \in DOMAIN spc : fr[s].tries = 0
             /\ rr_idx' = Add32(trace[1].cur, nsel' - Cardinality(BeforeFetch'))]_vars

C17_Witness ==
    /\ AllUp
    /\ backend_count = 2
    /\ nsel = 2
    /\ spc = [s1 |-> "rr_state", s2 |-> "rr_slot"]
    /\ trace[1].cur = UINT32_MAX
    /\ fr["s2"].cur = UINT32_MAX
    /\ fr["s1"].cur = Zero32
    /\ rr_idx = One32

\* the log from the first event of lb_core_destroy on
DestroyLog ==
    LET first == CHOOSE k \in DOMAIN log : log[k] = Call("lb_thread_pool_stop") IN
    SubSeq(log, first, Len(log))

\* the releases of the backends the registry holds, in slot order
BackendReleases ==
    [k \in 1..(2 * backend_count) |->
        IF k % 2 = 1 THEN Release(R_BLOCK, backends[(k - 1) \div 2])
                     ELSE Release(R_BACKEND, backends[(k - 2) \div 2])]

\* C18: lb_core_destroy does its steps in one order, each once, whatever the
\* earlier steps found: stop the pool, strategy teardown, munmap the arena if
\* there is one, close the epoll descriptor, destroy the registry lock,
\* release each backend (its lock, then its record), free the core.
C18_DestroyOrder ==
    lpc = "end" /\ cret.status = LB_OK =>
        DestroyLog =
            <<Call("lb_thread_pool_stop")>>
            \o (IF cin.tcalloc THEN <<Release(R_THREADS, 0)>> ELSE <<>>)
            \o <<Call("teardown")>>
            \o (IF cin.mmap THEN <<Release(R_MEM, 0)>> ELSE <<>>)
            \o <<Release(R_EPFD, 0), Release(R_LOCK, 0)>>
            \o BackendReleases
            \o <<Release(R_CORE, 0)>>

C18_Witness ==
    /\ lpc = "end"
    /\ cret.status = LB_OK
    /\ ~cin.mmap
    /\ ~cin.tcalloc
    /\ backend_count = 2
    /\ Len(DestroyLog) = 9

\* C19 as stated: when lb_core_destroy calls the strategy's teardown, nothing
\* of the core has been released: the thread array, the arena, the epoll
\* descriptor, the registry lock and all backends are still held.
C19_TeardownBeforeAnyRelease ==
    lpc = "d_teardown" => Held = Acquired

\* C19 amended: when lb_core_destroy calls the strategy's teardown, the pool
\* has been stopped and its thread array released, and nothing else has: the
\* arena, the epoll descriptor, the registry lock, all backends and the core
\* record are still held.
C19_TeardownAfterPoolStopOnly ==
    lpc = "d_teardown" =>
        /\ tpool = NoPool
        /\ Held = Acquired \ {<<R_THREADS, 0>>}
        /\ {<<R_CORE, 0>>, <<R_EPFD, 0>>, <<R_LOCK, 0>>} \subseteq Held
        /\ cin.mmap => <<R_MEM, 0>> \in Held
        /\ \A k \in 0..(backend_count - 1) :
              {<<R_BACKEND, backends[k]>>, <<R_BLOCK, backends[k]>>} \subseteq Held

C19_Witness ==
    /\ lpc = "d_teardown"
    /\ cin.tcalloc
    /\ cin.mmap
    /\ backend_count = 2
    /\ <<R_THREADS, 0>> \in Acquired \ Held

\* position of the acquisition, and of the release, of resource r in the log
AcqPos(r) == CHOOSE k \in DOMAIN log : log[k] = Acquire(r[1], r[2])

RelPos(r) == CHOOSE k \in DOMAIN log : log[k] = Release(r[1], r[2])

\* the resources acquired and released
Gone == Acquired \ Held

\* of two released resources the one acquired later was released first
Reverse(r1, r2) == AcqPos(r1) < AcqPos(r2) => RelPos(r2) < RelPos(r1)

\* of two released resources the one acquired later was released later
Forward(r1, r2) == AcqPos(r1) < AcqPos(r2) => RelPos(r1) < RelPos(r2)

\* C20 as stated: on the destroy path and on the failure paths of create,
\* resources are released in the reverse of the order they were acquired in.
C20_ReverseOfAcquisition ==
    \A r1 \in Gone, r2 \in Gone : Reverse(r1, r2)

\* the resources lb_core_create acquires after the core record
OfCreate == {<<R_EPFD, 0>>, <<R_LOCK, 0>>, <<R_MEM, 0>>, <<R_THREADS, 0>>}

\* C20 amended: releases are in reverse order of acquisition only in part:
\* the core record, acquired first, is released last; the thread array is
\* released before the arena and both before the epoll descriptor and the
\* registry lock; a backend's lock goes before its record. The descriptor,
\* acquired before the registry lock, is also released before it, and the
\* backends, acquired last, are released after what create acquired, in the
\* order they were registered.
C20_ReleaseOrder ==
    \A r1 \in Gone, r2 \in Gone :
        /\ r1 = <<R_CORE, 0>> => Reverse(r1, r2)
        /\ (r1 \in {<<R_EPFD, 0>>, <<R_LOCK, 0>>} /\ r2 \in {<<R_MEM, 0>>, <<R_THREADS, 0>>})
              => Reverse(r1, r2)
        /\ (r1 = <<R_MEM, 0>> /\ r2 = <<R_THREADS, 0>>) => Reverse(r1, r2)
        /\ (r1[1] = R_BACKEND /\ r2 = <<R_BLOCK, r1[2]>>) => Reverse(r1, r2)
        /\ (r1 = <<R_EPFD, 0>> /\ r2 = <<R_LOCK, 0>>) => Forward(r1, r2)
        /\ (r1 \in OfCreate /\ r2[1] \in {R_BACKEND, R_BLOCK}) => Forward(r1, r2)
        /\ (r1[1] \in {R_BACKEND, R_BLOCK} /\ r2[1] \in {R_BACKEND, R_BLOCK}
               /\ r1[2] # r2[2]) => Forward(r1, r2)

C20_Witness ==
    /\ lpc = "end"
    /\ cret.status = LB_OK
    /\ cin.mmap
    /\ cin.tcalloc
    /\ backend_count = 2
    /\ Cardinality(Gone) = 9

\* a backend has been stored past the end of lb->backends, over lb->rr_idx
StoredPastEnd == backend_count > MAX_BACKENDS /\ Len(appended) > MAX_BACKENDS

\* C21: while add_backend, select_backend and the updates of state and
\* active_conns interleave, backend_count never decreases, and a slot below
\* backend_count that holds a backend keeps holding that backend, with its
\* host and port, in every later state. A slot past the end of the array is
\* the memory of lb->rr_idx.
C21_RegistryAppendOnly ==
    [][/\ backend_count' >= backend_count
       /\ \A k \in DOMAIN backends :
             (k < backend_count /\ backends[k] # NULL) =>
                 /\ backends'[k] = backends[k]
                 /\ heap'[backends[k]].host = heap[backends[k]].host
                 /\ heap'[backends[k]].port = heap[backends[k]].port
       /\ StoredPastEnd => rr_idx' = rr_idx]_vars

\* C22: on a constant registry with at least one backend BACKEND_UP, a
\* round-robin select_backend call returns a backend and never NULL, also
\* while other threads select and take cursor values.
C22_RoundRobinAvailable ==
    \A s \in DOMAIN spc :
        (spc[s] = "done" /\ UpSlots # {}) => sret[s] # NULL

\* thread s of select_backend takes this step
SelStep(s) == spc'[s] # spc[s] \/ fr'[s] # fr[s] \/ nsel' # nsel

\* thread s returns from strat_rr_select in this step
RrReturns(s) == spc[s] \in {"rr_loop", "rr_state"} /\ spc'[s] = "done"

\* C23: select_backend only reads the registry and the backends: no step of
\* it changes backend_count, a slot, or a backend's state, weight or
\* active_conns; a least-connections call changes nothing, a round-robin
\* call changes only the cursor, which it leaves between 1 and backend_count
\* above where it found it (and untouched when it returns at once on an
\* empty registry or a NULL core).
C23_SelectReadsOnly ==
    [][\A s \in SelThreads :
          SelStep(s) =>
              /\ backend_count' = backend_count
              /\ backends' = backends
              /\ heap' = heap
              /\ strategy' = strategy
              /\ backends_lock' = backends_lock
              /\ strategy = STRAT_LEASTCONN => rr_idx' = rr_idx
              /\ rr_idx' # rr_idx => rr_idx' = Inc32(rr_idx)
              /\ RrReturns(s) =>
                    \E d \in 1..backend_count : rr_idx' = Add32(fr[s].start, d)
              /\ (spc[s] \in {"idle", "done", "rr_entry"} /\ spc'[s] = "done") =>
                    rr_idx' = rr_idx]_vars

\* a round-robin call has skipped a backend and returned the next, whose
\* active_conns is as before
C23_Witness ==
    /\ strategy = STRAT_RR
    /\ spc["s1"] = "done"
    /\ sret["s1"] # NULL
    /\ backend_count = 2
    /\ rr_idx = Nat32(3)
    /\ heap[sret["s1"]].active_conns = Zero32

====
